---- MODULE Spec2Model ----
(***************************************************************************)
(* App Check attestation providers (packages/app-check/src/providers.ts).  *)
(*                                                                         *)
(* One provider instance, of either variant, is modelled together with    *)
(* the getToken calls made on it.  JavaScript runs each getToken call      *)
(* without interruption up to its next `await`; every such stretch is one  *)
(* action, so overlapping calls interleave only at the awaits on the       *)
(* reCAPTCHA collaborator, the exchange collaborator and the user          *)
(* callback.  Date.now() is the variable `now`, in milliseconds.           *)
(***************************************************************************)
EXTENDS Integers, Naturals, Sequences, FiniteSets, TLC

\* ------------------------------------------------------------------ bounds
\* number of getToken calls made on the provider
MaxCalls == 2
\* number of times the clock is advanced
MaxTicks == 2
\* Date.now() when the provider is constructed
StartTime == 10000

Calls == 1..MaxCalls

\* ------------------------------------------------- constants of the program
\* ./constants ONE_DAY (24 * 60 * 60 * 1000)
ONE_DAY == 86400000
\* interval and factor handed to calculateBackoffMillis
BackoffIntervalMillis == 1000
BackoffFactor == 2

\* AppCheckError codes (./errors)
USE_BEFORE_ACTIVATION == "use-before-activation"
THROTTLED == "throttled"
RECAPTCHA_ERROR == "recaptcha-error"
FETCH_STATUS_ERROR == "fetch-status-error"
FETCH_NETWORK_ERROR == "fetch-network-error"
FETCH_PARSE_ERROR == "fetch-parse-error"

\* ------------------------------------------------------------ input domains
Null == [null |-> TRUE]
\* Number(undefined): the status of an error whose customData has no httpStatus
NaN == 999
\* a field that was never assigned
Undefined == [undefined |-> TRUE]
\* FirebaseApp objects
Apps == {[name |-> "app1"]}
\* statuses an exchange failure can carry
HttpStatuses == {403, 404, 500, NaN}
\* App Check tokens the exchange endpoint can return
ExchangeTokens == {"appCheckTokenA", "appCheckTokenB"}
\* errors exchangeToken() can reject with
ExchangeErrors ==
    [code : {FETCH_STATUS_ERROR}, httpStatus : HttpStatuses]
    \cup [code : {FETCH_NETWORK_ERROR, FETCH_PARSE_ERROR}, httpStatus : {NaN}]

\* what the user callback can throw
CallbackErrors == {[code |-> "custom-callback-error"]}
\* expireTimeMillis of the tokens the user callback returns
CustomExpireTimes == {StartTime + ONE_DAY}

VARIABLES
    provider,                \* the class of the instance
    now,                     \* Date.now()
    app,                     \* this._app
    platformLoggerProvider,  \* this._platformLoggerProvider
    throttleData,            \* this._throttleData
    pc,                      \* where each getToken call stands
    outcome,                 \* what each getToken call settled with
    entryThrottle,           \* history: this._throttleData as the call found it
    attestCalls,             \* history: getReCAPTCHAToken / callback invocations of the call
    exchangeCalls,           \* history: exchangeToken invocations of the call
    exchangeLog,             \* history: the exchanges and callbacks settled so far, in order
    ticks,                   \* number of clock advances so far
    isEqualCall              \* the last isEqual call: receiver, argument, result

vars == <<provider, now, app, platformLoggerProvider, throttleData, pc, outcome,
          entryThrottle, attestCalls, exchangeCalls, exchangeLog, ticks, isEqualCall>>

hist == <<entryThrottle, attestCalls, exchangeCalls, exchangeLog>>

\* ------------------------------------------------------------ pure helpers
RECURSIVE Pow(_, _)
Pow(b, e) == IF e = 0 THEN 1 ELSE b * Pow(b, e - 1)

\* new Date(ms).toLocaleString(): a date and time of day to the second
ToLocaleString(ms) == ms \div 1000

\* calculateBackoffMillis(backoffCount, intervalMillis, backoffFactor): the
\* delays it can return, interval * factor^count with bounded random jitter
CalculateBackoffMillis(backoffCount, intervalMillis, backoffFactor) ==
    LET currBaseValue == intervalMillis * Pow(backoffFactor, backoffCount)
    IN  {currBaseValue - (currBaseValue \div 2),
         currBaseValue,
         currBaseValue + (currBaseValue \div 2)}

\* iat claims (seconds since epoch) a token handed back by the user callback
\* can carry when Date.now() is t
IatValues(t) == {-1, 0, 5, t \div 1000, t - 1, t, t + 1}

\* the JWTs the user callback can return at time t: with or without an iat claim
CustomJwts(t) == {[iat |-> v] : v \in IatValues(t)} \cup {[sub |-> "no-iat"]}

\* the AppCheckToken objects the user callback can resolve with at time t
CustomTokens(t) == [token : CustomJwts(t), expireTimeMillis : CustomExpireTimes]

\* issuedAtTime(token): the iat claim of the decoded token, or null
IssuedAtTime(jwt) == IF "iat" \in DOMAIN jwt THEN [seconds |-> jwt.iat] ELSE Null

\* mutant: the lower bound on the iat claim is not checked
IssuedAtTimeMillisUnbounded(jwt, t) ==
    LET issuedAtTimeSeconds == IssuedAtTime(jwt)
    IN  IF issuedAtTimeSeconds # Null
        THEN IF issuedAtTimeSeconds.seconds < t
             THEN issuedAtTimeSeconds.seconds * 1000
             ELSE t
        ELSE t

\* the issuedAtTimeMillis CustomProvider.getToken derives from a token at time t
IssuedAtTimeMillis(jwt, t) ==
    LET issuedAtTimeSeconds == IssuedAtTime(jwt)
    IN  IF issuedAtTimeSeconds # Null
        THEN IF issuedAtTimeSeconds.seconds < t /\ issuedAtTimeSeconds.seconds > 0
             THEN issuedAtTimeSeconds.seconds * 1000
             ELSE t
        ELSE t

\* _getProvider(app, 'platform-logger')
GetProvider(a) == [platformLogger |-> a]

\* mutant: the error reports the time of the call, not the stored timestamp
ThrottledErrorStale(td) ==
    [code |-> THROTTLED,
     time |-> ToLocaleString(now),
     httpStatus |-> td.httpStatus]

\* ERROR_FACTORY.create(AppCheckError.THROTTLED, {time, httpStatus})
ThrottledError(td) ==
    [code |-> THROTTLED,
     time |-> ToLocaleString(td.allowRequestsAfter),
     httpStatus |-> td.httpStatus]

\* mutant: the error names the default app
UseBeforeActivationErrorNamed ==
    [code |-> USE_BEFORE_ACTIVATION, appName |-> "[DEFAULT]"]

\* ERROR_FACTORY.create(AppCheckError.USE_BEFORE_ACTIVATION, {appName: ''})
UseBeforeActivationError ==
    [code |-> USE_BEFORE_ACTIVATION, appName |-> ""]

\* ERROR_FACTORY.create(AppCheckError.RECAPTCHA_ERROR)
RecaptchaError == [code |-> RECAPTCHA_ERROR]

\* mutant: the throttle is taken to have expired at allowRequestsAfter itself
ThrottleExpiredInclusive(td, t) == t - td.allowRequestsAfter >= 0

\* the throttle check on entry to getToken lets the call through
ThrottleExpired(td, t) == t - td.allowRequestsAfter > 0

\* mutant: a hard block adds to the backoff count it finds
SetBackoffAccumulating(td, httpStatus, t, backoffMillis) ==
    LET backoffCount == IF td # Null THEN td.backoffCount ELSE 0
    IN  IF httpStatus = 404 \/ httpStatus = 403
        THEN [backoffCount |-> backoffCount + 1,
              allowRequestsAfter |-> t + ONE_DAY,
              httpStatus |-> httpStatus]
        ELSE [backoffCount |-> backoffCount + 1,
              allowRequestsAfter |-> t + backoffMillis,
              httpStatus |-> httpStatus]

\* _setBackoff(httpStatus): the record assigned to this._throttleData, given
\* the record it replaces, Date.now() and the delay calculateBackoffMillis drew
SetBackoff(td, httpStatus, t, backoffMillis) ==
    IF httpStatus = 404 \/ httpStatus = 403
    THEN [backoffCount |-> 1,
          allowRequestsAfter |-> t + ONE_DAY,
          httpStatus |-> httpStatus]
    ELSE LET backoffCount == IF td # Null THEN td.backoffCount ELSE 0
         IN  [backoffCount |-> backoffCount + 1,
              allowRequestsAfter |-> t + backoffMillis,
              httpStatus |-> httpStatus]

\* the delays _setBackoff can draw for a status
BackoffChoices(td, httpStatus) ==
    IF httpStatus = 404 \/ httpStatus = 403
    THEN {0}
    ELSE CalculateBackoffMillis(IF td # Null THEN td.backoffCount ELSE 0,
                                BackoffIntervalMillis, BackoffFactor)

\* ------------------------------------------------------------------- Init
Init ==
    /\ provider \in {"ReCaptchaV3Provider", "CustomProvider"}
    /\ now = StartTime
    /\ app = Undefined
    /\ platformLoggerProvider = Undefined
    /\ throttleData = Null
    /\ pc = [c \in Calls |-> "idle"]
    /\ outcome = [c \in Calls |-> Null]
    /\ entryThrottle = [c \in Calls |-> Null]
    /\ attestCalls = [c \in Calls |-> 0]
    /\ exchangeCalls = [c \in Calls |-> 0]
    /\ exchangeLog = <<>>
    /\ ticks = 0
    /\ isEqualCall = Null

\* getToken calls are numbered in the order they are made
NextCall(c) == pc[c] = "idle" /\ (IF c = 1 THEN TRUE ELSE pc[c - 1] # "idle")

\* mutant: the call ends but its promise is never fulfilled
ReturnLost(c, tok) ==
    /\ pc' = [pc EXCEPT ![c] = "done"]
    /\ outcome' = outcome

\* the promise getToken returned is fulfilled or rejected
Return(c, tok) ==
    /\ pc' = [pc EXCEPT ![c] = "done"]
    /\ outcome' = [outcome EXCEPT ![c] = [kind |-> "return", token |-> tok]]

Throw(c, e) ==
    /\ pc' = [pc EXCEPT ![c] = "done"]
    /\ outcome' = [outcome EXCEPT ![c] = [kind |-> "throw", error |-> e]]

\* history: exchangeToken, or the user callback, settled for call c with result r
Logged(c, r) ==
    exchangeLog' = Append(exchangeLog, [call |-> c, result |-> r, after |-> throttleData'])

\* ------------------------------------------------------ ReCaptchaV3Provider
\* initialize(app)
RecaptchaInitialize(a) ==
    /\ provider = "ReCaptchaV3Provider"
    /\ app' = a
    /\ platformLoggerProvider' = GetProvider(a)
    /\ UNCHANGED <<provider, now, throttleData, pc, outcome, hist, ticks, isEqualCall>>

\* mutant: an expired throttle record is passed over but not cleared
RecaptchaGetTokenKeepsRecord(c) ==
    /\ provider = "ReCaptchaV3Provider"
    /\ NextCall(c)
    /\ entryThrottle' = [entryThrottle EXCEPT ![c] = throttleData]
    /\ IF throttleData # Null /\ ~ThrottleExpired(throttleData, now)
       THEN /\ Throw(c, ThrottledError(throttleData))
            /\ UNCHANGED <<throttleData, attestCalls>>
       ELSE /\ throttleData' = throttleData
            /\ IF app = Undefined \/ platformLoggerProvider = Undefined
               THEN /\ Throw(c, UseBeforeActivationError)
                    /\ UNCHANGED attestCalls
               ELSE /\ pc' = [pc EXCEPT ![c] = "attest"]
                    /\ attestCalls' = [attestCalls EXCEPT ![c] = @ + 1]
                    /\ UNCHANGED outcome
    /\ UNCHANGED <<provider, now, app, platformLoggerProvider, exchangeCalls,
                   exchangeLog, ticks, isEqualCall>>

\* getToken(), from the call to the await on getReCAPTCHAToken
RecaptchaGetToken(c) ==
    /\ provider = "ReCaptchaV3Provider"
    /\ NextCall(c)
    /\ entryThrottle' = [entryThrottle EXCEPT ![c] = throttleData]
    /\ IF throttleData # Null /\ ~ThrottleExpired(throttleData, now)
       THEN /\ Throw(c, ThrottledError(throttleData))
            /\ UNCHANGED <<throttleData, attestCalls>>
       ELSE /\ throttleData' = Null
            /\ IF app = Undefined \/ platformLoggerProvider = Undefined
               THEN /\ Throw(c, UseBeforeActivationError)
                    /\ UNCHANGED attestCalls
               ELSE /\ pc' = [pc EXCEPT ![c] = "attest"]
                    /\ attestCalls' = [attestCalls EXCEPT ![c] = @ + 1]
                    /\ UNCHANGED outcome
    /\ UNCHANGED <<provider, now, app, platformLoggerProvider, exchangeCalls,
                   exchangeLog, ticks, isEqualCall>>

\* getReCAPTCHAToken resolves: getToken goes on to call exchangeToken
AttestationResolves(c) ==
    /\ pc[c] = "attest"
    /\ pc' = [pc EXCEPT ![c] = "exchange"]
    /\ exchangeCalls' = [exchangeCalls EXCEPT ![c] = @ + 1]
    /\ UNCHANGED <<provider, now, app, platformLoggerProvider, throttleData,
                   outcome, entryThrottle, attestCalls, exchangeLog, ticks, isEqualCall>>

\* mutant: the collaborator's own rejection reaches the caller
AttestationRejectsRethrows(c) ==
    /\ pc[c] = "attest"
    /\ Throw(c, [code |-> "recaptcha-execute-rejected"])
    /\ UNCHANGED <<provider, now, app, platformLoggerProvider, throttleData,
                   hist, ticks, isEqualCall>>

\* getReCAPTCHAToken rejects: the catch handler throws RECAPTCHA_ERROR
AttestationRejects(c) ==
    /\ pc[c] = "attest"
    /\ Throw(c, RecaptchaError)
    /\ UNCHANGED <<provider, now, app, platformLoggerProvider, throttleData,
                   hist, ticks, isEqualCall>>

\* mutant: a successful exchange clears the throttle record
ExchangeResolvesClearing(c, tok) ==
    /\ pc[c] = "exchange"
    /\ Return(c, tok)
    /\ throttleData' = Null
    /\ UNCHANGED <<provider, now, app, platformLoggerProvider,
                   entryThrottle, attestCalls, exchangeCalls, ticks, isEqualCall>>
    /\ Logged(c, [kind |-> "return", token |-> tok])

\* exchangeToken resolves: getToken returns the result
ExchangeResolves(c, tok) ==
    /\ pc[c] = "exchange"
    /\ Return(c, tok)
    /\ UNCHANGED <<provider, now, app, platformLoggerProvider, throttleData,
                   entryThrottle, attestCalls, exchangeCalls, ticks, isEqualCall>>
    /\ Logged(c, [kind |-> "return", token |-> tok])

\* exchangeToken rejects with FETCH_STATUS_ERROR: _setBackoff, then THROTTLED
ExchangeRejectsWithStatus(c, e) ==
    /\ pc[c] = "exchange"
    /\ e.code = FETCH_STATUS_ERROR
    /\ \E backoffMillis \in BackoffChoices(throttleData, e.httpStatus) :
          /\ throttleData' = SetBackoff(throttleData, e.httpStatus, now, backoffMillis)
          /\ Throw(c, ThrottledError(throttleData'))
    /\ UNCHANGED <<provider, now, app, platformLoggerProvider,
                   entryThrottle, attestCalls, exchangeCalls, ticks, isEqualCall>>
    /\ Logged(c, [kind |-> "throw", error |-> e])

\* mutant: every exchange failure sets the backoff and is reported as THROTTLED
ExchangeRejectsOtherThrottles(c, e) ==
    /\ pc[c] = "exchange"
    /\ e.code # FETCH_STATUS_ERROR
    /\ \E backoffMillis \in BackoffChoices(throttleData, e.httpStatus) :
          /\ throttleData' = SetBackoff(throttleData, e.httpStatus, now, backoffMillis)
          /\ Throw(c, ThrottledError(throttleData'))
    /\ UNCHANGED <<provider, now, app, platformLoggerProvider,
                   entryThrottle, attestCalls, exchangeCalls, ticks, isEqualCall>>
    /\ Logged(c, [kind |-> "throw", error |-> e])

\* mutant: a failed exchange is tried again
ExchangeRejectsOtherRetries(c, e) ==
    /\ pc[c] = "exchange"
    /\ e.code # FETCH_STATUS_ERROR
    /\ exchangeCalls' = [exchangeCalls EXCEPT ![c] = @ + 1]
    /\ UNCHANGED <<provider, now, app, platformLoggerProvider, throttleData,
                   pc, outcome, entryThrottle, attestCalls, ticks, isEqualCall>>
    /\ Logged(c, [kind |-> "throw", error |-> e])

\* exchangeToken rejects with any other error: it is rethrown
ExchangeRejectsOther(c, e) ==
    /\ pc[c] = "exchange"
    /\ e.code # FETCH_STATUS_ERROR
    /\ Throw(c, e)
    /\ UNCHANGED <<provider, now, app, platformLoggerProvider, throttleData,
                   entryThrottle, attestCalls, exchangeCalls, ticks, isEqualCall>>
    /\ Logged(c, [kind |-> "throw", error |-> e])

\* ------------------------------------------------------------ CustomProvider
\* initialize(app)
CustomInitialize(a) ==
    /\ provider = "CustomProvider"
    /\ app' = a
    /\ UNCHANGED <<provider, now, platformLoggerProvider, throttleData, pc,
                   outcome, hist, ticks, isEqualCall>>

\* getToken(), from the call to the await on the user callback
CustomGetToken(c) ==
    /\ provider = "CustomProvider"
    /\ NextCall(c)
    /\ entryThrottle' = [entryThrottle EXCEPT ![c] = throttleData]
    /\ IF app = Undefined
       THEN /\ Throw(c, UseBeforeActivationError)
            /\ UNCHANGED attestCalls
       ELSE /\ pc' = [pc EXCEPT ![c] = "callback"]
            /\ attestCalls' = [attestCalls EXCEPT ![c] = @ + 1]
            /\ UNCHANGED outcome
    /\ UNCHANGED <<provider, now, app, platformLoggerProvider, throttleData,
                   exchangeCalls, exchangeLog, ticks, isEqualCall>>

\* the user callback resolves: the token is returned with its issuedAtTimeMillis
CallbackResolves(c, customToken) ==
    /\ pc[c] = "callback"
    /\ Return(c, [token |-> customToken.token,
                  expireTimeMillis |-> customToken.expireTimeMillis,
                  issuedAtTimeMillis |-> IssuedAtTimeMillis(customToken.token, now)])
    /\ UNCHANGED <<provider, now, app, platformLoggerProvider, throttleData,
                   entryThrottle, attestCalls, exchangeCalls, ticks, isEqualCall>>
    /\ Logged(c, [kind |-> "return", token |-> customToken])

\* the user callback rejects: the rejection propagates
CallbackRejects(c, e) ==
    /\ pc[c] = "callback"
    /\ Throw(c, e)
    /\ UNCHANGED <<provider, now, app, platformLoggerProvider, throttleData,
                   entryThrottle, attestCalls, exchangeCalls, ticks, isEqualCall>>
    /\ Logged(c, [kind |-> "throw", error |-> e])

\* ----------------------------------------------------------------- isEqual
\* site keys a ReCaptchaV3Provider can be constructed with
SiteKeys == {"siteKeyA", "siteKeyB"}

\* callbacks a CustomProvider can be constructed with: function objects, each
\* with its identity and its source text; two of them share their text
Callbacks ==
    {[id |-> 1, text |-> "() => fetchAppCheckToken()"],
     [id |-> 2, text |-> "() => fetchAppCheckToken()"],
     [id |-> 3, text |-> "() => mintToken(key)"]}

\* a throttle record a provider may hold when isEqual is called
SomeThrottleData ==
    [backoffCount |-> 1, allowRequestsAfter |-> StartTime + ONE_DAY, httpStatus |-> 403]

\* provider objects, in any state of their app context and throttle record
ReCaptchaV3Providers ==
    [class : {"ReCaptchaV3Provider"}, siteKey : SiteKeys,
     app : {Undefined} \cup Apps, throttleData : {Null, SomeThrottleData}]

CustomProviders ==
    [class : {"CustomProvider"}, getToken : Callbacks, app : {Undefined} \cup Apps]

\* arguments of isEqual that are no provider
NonProviders == {[class |-> "Object"], [class |-> "null"]}

\* Function.prototype.toString(): the source text of the function
FunctionToString(f) == f.text

\* mutant: any two ReCaptchaV3Providers are equal
RecaptchaIsEqualAnyKey(this, otherProvider) ==
    IF otherProvider.class = "ReCaptchaV3Provider"
    THEN TRUE
    ELSE FALSE

\* ReCaptchaV3Provider.isEqual(otherProvider)
RecaptchaIsEqual(this, otherProvider) ==
    IF otherProvider.class = "ReCaptchaV3Provider"
    THEN this.siteKey = otherProvider.siteKey
    ELSE FALSE

\* CustomProvider.isEqual(otherProvider)
CustomIsEqual(this, otherProvider) ==
    IF otherProvider.class = "CustomProvider"
    THEN FunctionToString(this.getToken) = FunctionToString(otherProvider.getToken)
    ELSE FALSE

\* provider.isEqual(otherProvider), dispatched on the class of the receiver
IsEqual(this, otherProvider) ==
    IF this.class = "ReCaptchaV3Provider"
    THEN RecaptchaIsEqual(this, otherProvider)
    ELSE CustomIsEqual(this, otherProvider)

\* this.isEqual(otherProvider) is called and returns
IsEqualCalled(this, otherProvider) ==
    /\ isEqualCall' = [this |-> this, other |-> otherProvider,
                       result |-> IsEqual(this, otherProvider)]
    /\ UNCHANGED <<provider, now, app, platformLoggerProvider, throttleData, pc,
                   outcome, hist, ticks>>

EqNext ==
    \E this \in ReCaptchaV3Providers \cup CustomProviders,
       otherProvider \in ReCaptchaV3Providers \cup CustomProviders \cup NonProviders :
        IsEqualCalled(this, otherProvider)

\* isEqual applied to every pair of a provider and an argument
EqSpec == Init /\ [][EqNext]_vars

\* ------------------------------------------------------------------- clock
\* amounts by which the clock is seen to advance between two steps: a
\* millisecond, a second, or up to the instant the throttle record names
TimeSteps ==
    {1, 1000}
    \cup (IF throttleData # Null /\ throttleData.allowRequestsAfter > now
          THEN {throttleData.allowRequestsAfter - now} ELSE {})

Tick(d) ==
    /\ ticks < MaxTicks
    /\ now' = now + d
    /\ ticks' = ticks + 1
    /\ UNCHANGED <<provider, app, platformLoggerProvider, throttleData, pc,
                   outcome, hist, isEqualCall>>

Next ==
    \/ \E a \in Apps : RecaptchaInitialize(a)
    \/ \E c \in Calls : RecaptchaGetToken(c)
    \/ \E c \in Calls : AttestationResolves(c)
    \/ \E c \in Calls : AttestationRejects(c)
    \/ \E c \in Calls, tok \in ExchangeTokens : ExchangeResolves(c, tok)
    \/ \E c \in Calls, e \in ExchangeErrors : ExchangeRejectsWithStatus(c, e)
    \/ \E c \in Calls, e \in ExchangeErrors : ExchangeRejectsOther(c, e)
    \/ \E a \in Apps : CustomInitialize(a)
    \/ \E c \in Calls : CustomGetToken(c)
    \/ \E c \in Calls, customToken \in CustomTokens(now) :
          CallbackResolves(c, customToken)
    \/ \E c \in Calls, e \in CallbackErrors : CallbackRejects(c, e)
    \/ \E d \in TimeSteps : Tick(d)

Spec == Init /\ [][Next]_vars

\* the collaborators answer: a pending attestation, exchange or callback of
\* any call is eventually resolved or rejected
CollaboratorsRespond ==
    \A c \in Calls :
        /\ WF_vars(AttestationResolves(c) \/ AttestationRejects(c))
        /\ WF_vars(\/ \E tok \in ExchangeTokens : ExchangeResolves(c, tok)
                   \/ \E e \in ExchangeErrors : ExchangeRejectsWithStatus(c, e)
                   \/ \E e \in ExchangeErrors : ExchangeRejectsOther(c, e))
        /\ WF_vars(\/ \E customToken \in CustomTokens(now) :
                         CallbackResolves(c, customToken)
                   \/ \E e \in CallbackErrors : CallbackRejects(c, e))

FairSpec == Spec /\ CollaboratorsRespond

\* no getToken call is pending
NoneInFlight == \A c \in Calls : pc[c] \in {"idle", "done"}

\* the steps of the executions in which getToken calls do not overlap: a
\* call is made only when every earlier call is over
SeqNext ==
    \/ \E a \in Apps : RecaptchaInitialize(a)
    \/ \E c \in Calls : NoneInFlight /\ RecaptchaGetToken(c)
    \/ \E c \in Calls : AttestationResolves(c)
    \/ \E c \in Calls : AttestationRejects(c)
    \/ \E c \in Calls, tok \in ExchangeTokens : ExchangeResolves(c, tok)
    \/ \E c \in Calls, e \in ExchangeErrors : ExchangeRejectsWithStatus(c, e)
    \/ \E c \in Calls, e \in ExchangeErrors : ExchangeRejectsOther(c, e)
    \/ \E a \in Apps : CustomInitialize(a)
    \/ \E c \in Calls : NoneInFlight /\ CustomGetToken(c)
    \/ \E c \in Calls, customToken \in CustomTokens(now) :
          CallbackResolves(c, customToken)
    \/ \E c \in Calls, e \in CallbackErrors : CallbackRejects(c, e)
    \/ \E d \in TimeSteps : Tick(d)

SeqSpec == Init /\ [][SeqNext]_vars

TypeOK ==
    /\ provider \in {"ReCaptchaV3Provider", "CustomProvider"}
    /\ now \in Nat
    /\ pc \in [Calls -> {"idle", "attest", "exchange", "callback", "done"}]

\* ---------------------------------------------------------------- claims
IsRecaptcha == provider = "ReCaptchaV3Provider"

\* the step in which getToken call c is made
Enters(c) == pc[c] = "idle" /\ pc'[c] # "idle"

\* the step in which the exchange of call c settles
ExchangeSettles(c) ==
    /\ pc[c] = "exchange"
    /\ pc'[c] = "done"
    /\ Len(exchangeLog') = Len(exchangeLog) + 1

\* the exchange result a settling step has just logged
Settled == exchangeLog'[Len(exchangeLog')].result

IsStatusFailure(r) == r.kind = "throw" /\ r.error.code = "fetch-status-error"

IsHardBlock(r) == IsStatusFailure(r) /\ r.error.httpStatus \in {403, 404}

IsTransient(r) == IsStatusFailure(r) /\ r.error.httpStatus \notin {403, 404}

\* call c was turned away by the throttle check on entry
ThrottledOnEntry(c) ==
    /\ IsRecaptcha
    /\ pc[c] = "done"
    /\ attestCalls[c] = 0
    /\ entryThrottle[c] # Null

\* C1: a getToken call made on a throttled ReCaptchaV3Provider before
\* allowRequestsAfter is rejected with THROTTLED carrying the stored
\* allowRequestsAfter (as its locale time) and httpStatus, invokes neither
\* collaborator and leaves the throttle record as it was; calls turned away
\* by the same record are rejected with the same error.
C1_ThrottledCallShortCircuits ==
    /\ [][\A c \in Calls :
            (/\ IsRecaptcha
             /\ Enters(c)
             /\ throttleData # Null
             /\ now < throttleData.allowRequestsAfter)
            => /\ pc'[c] = "done"
               /\ outcome'[c] =
                     [kind |-> "throw",
                      error |-> [code |-> "throttled",
                                 time |-> throttleData.allowRequestsAfter \div 1000,
                                 httpStatus |-> throttleData.httpStatus]]
               /\ throttleData' = throttleData
               /\ attestCalls' = attestCalls
               /\ exchangeCalls' = exchangeCalls]_vars
    /\ [](\A c1, c2 \in Calls :
            (/\ ThrottledOnEntry(c1)
             /\ ThrottledOnEntry(c2)
             /\ entryThrottle[c1] = entryThrottle[c2])
            => outcome[c1] = outcome[c2])

\* a call was turned away inside the window of the record that still stands
C1_Witness ==
    \E c \in Calls :
        /\ ThrottledOnEntry(c)
        /\ throttleData = entryThrottle[c]
        /\ now < throttleData.allowRequestsAfter
        /\ outcome[c].error.code = "throttled"
        /\ exchangeCalls[c] = 0

\* C2 as stated: on a throttled ReCaptchaV3Provider, a getToken call made
\* when now >= allowRequestsAfter clears the throttle record and goes on to
\* the exchange instead of being rejected with THROTTLED.
C2_ClearsFromAllowRequestsAfter ==
    [][\A c \in Calls :
          (/\ IsRecaptcha
           /\ Enters(c)
           /\ throttleData # Null
           /\ now >= throttleData.allowRequestsAfter)
          => /\ throttleData' = Null
             /\ pc'[c] # "done"]_vars

\* C2 amended: a getToken call made on a throttled ReCaptchaV3Provider when
\* now > allowRequestsAfter clears the throttle record and goes on to the
\* attestation, after which it invokes the exchange exactly once if the
\* attestation succeeds and not at all if it fails; a call made when
\* now <= allowRequestsAfter, the instant now = allowRequestsAfter
\* included, is rejected with THROTTLED and clears nothing.
C2_ClearsAfterAllowRequestsAfter ==
    /\ [][\A c \in Calls :
            (IsRecaptcha /\ Enters(c) /\ throttleData # Null)
            => IF now > throttleData.allowRequestsAfter
               THEN /\ throttleData' = Null
                    /\ pc'[c] = "attest"
                    /\ exchangeCalls'[c] = 0
               ELSE /\ pc'[c] = "done"
                    /\ outcome'[c].kind = "throw"
                    /\ outcome'[c].error.code = "throttled"
                    /\ throttleData' = throttleData]_vars
    /\ [][\A c \in Calls :
            (pc[c] = "attest" /\ pc'[c] # "attest")
            => \/ pc'[c] = "exchange" /\ exchangeCalls'[c] = 1
               \/ pc'[c] = "done" /\ exchangeCalls'[c] = 0]_vars
    /\ [][\A c \in Calls :
            pc[c] \in {"exchange", "done"} => exchangeCalls'[c] = exchangeCalls[c]]_vars

\* a call found an expired record, cleared it and has invoked the exchange
C2_Witness ==
    \E c \in Calls :
        /\ IsRecaptcha
        /\ entryThrottle[c] # Null
        /\ pc[c] = "exchange"
        /\ exchangeCalls[c] = 1
        /\ throttleData = Null

\* C3: an exchange failure with status 403 or 404 at time now leaves the
\* throttle record at (backoffCount 1, allowRequestsAfter now + ONE_DAY, that
\* status) whatever it was before; while that record stands, a getToken call
\* 1000 ms after the failure is rejected with THROTTLED carrying that
\* allowRequestsAfter, and a call at ONE_DAY + 1 ms after the failure
\* clears the record and goes on to the attestation and exchange.
C3_HardBlockIsOneDay ==
    /\ [][\A c \in Calls :
            (ExchangeSettles(c) /\ IsHardBlock(Settled))
            => throttleData' = [backoffCount |-> 1,
                                allowRequestsAfter |-> now + ONE_DAY,
                                httpStatus |-> Settled.error.httpStatus]]_vars
    /\ [][\A c \in Calls :
            (/\ IsRecaptcha
             /\ Enters(c)
             /\ throttleData # Null
             /\ throttleData.httpStatus \in {403, 404})
            => LET t0 == throttleData.allowRequestsAfter - ONE_DAY
               IN  /\ now = t0 + 1000
                      => /\ pc'[c] = "done"
                         /\ outcome'[c] =
                               [kind |-> "throw",
                                error |-> [code |-> "throttled",
                                           time |-> (t0 + ONE_DAY) \div 1000,
                                           httpStatus |-> throttleData.httpStatus]]
                   /\ now = t0 + ONE_DAY + 1
                      => /\ throttleData' = Null
                         /\ pc'[c] = "attest"]_vars

\* a call made 1000 ms after a hard block was turned away by its record
C3_Witness ==
    \E c \in Calls :
        /\ ThrottledOnEntry(c)
        /\ entryThrottle[c].httpStatus \in {403, 404}
        /\ entryThrottle[c].backoffCount = 1
        /\ now = entryThrottle[c].allowRequestsAfter - ONE_DAY + 1000

\* C4 as stated: as long as every exchange settled so far failed with a
\* transient status, the k-th failure leaves backoffCount = k and sets
\* allowRequestsAfter a delay calculateBackoffMillis(k - 1, 1000, 2) ahead.
C4_BackoffCountCountsFailures ==
    [][\A c \in Calls :
          (/\ ExchangeSettles(c)
           /\ \A i \in 1..Len(exchangeLog') : IsTransient(exchangeLog'[i].result))
          => LET k == Len(exchangeLog')
             IN  /\ throttleData'.backoffCount = k
                 /\ (throttleData'.allowRequestsAfter - now)
                       \in CalculateBackoffMillis(k - 1, 1000, 2)]_vars

\* C5 as stated: a transient failure that follows a transient failure stores
\* an allowRequestsAfter strictly greater than the one its predecessor stored.
C5_AllowRequestsAfterIncreases ==
    \A j \in 2..Len(exchangeLog) :
        (IsTransient(exchangeLog[j].result) /\ IsTransient(exchangeLog[j - 1].result))
        => exchangeLog[j].after.allowRequestsAfter
              > exchangeLog[j - 1].after.allowRequestsAfter

\* C6 as stated: two overlapping getToken calls never both find the throttle
\* state CLEAR on entry and both invoke the exchange.
C6_OneExchangeAtATime ==
    ~ \E c1, c2 \in Calls :
          /\ c1 # c2
          /\ IsRecaptcha
          /\ entryThrottle[c1] = Null /\ entryThrottle[c2] = Null
          /\ pc[c1] = "exchange" /\ pc[c2] = "exchange"

\* C7 as stated: the exchange is never invoked while the throttle record
\* stands and now < allowRequestsAfter.
C7_NoExchangeWhileThrottled ==
    [][\A c \in Calls :
          (pc[c] = "attest" /\ pc'[c] = "exchange")
          => ~(throttleData # Null /\ now < throttleData.allowRequestsAfter)]_vars

\* C8: getToken on a provider of either variant that was never initialized
\* is rejected with USE_BEFORE_ACTIVATION and an empty appName, invokes no
\* collaborator or callback, and finds and leaves the throttle state clear.
C8_UseBeforeActivation ==
    [][\A c \in Calls :
          (Enters(c) /\ app = Undefined)
          => /\ pc'[c] = "done"
             /\ outcome'[c] = [kind |-> "throw",
                               error |-> [code |-> "use-before-activation",
                                          appName |-> ""]]
             /\ attestCalls' = attestCalls
             /\ exchangeCalls' = exchangeCalls
             /\ throttleData = Null
             /\ throttleData' = Null]_vars

\* a call on a ReCaptchaV3Provider that was never initialized was rejected
C8_Witness ==
    \E c \in Calls :
        /\ IsRecaptcha
        /\ app = Undefined
        /\ pc[c] = "done"
        /\ outcome[c].kind = "throw"
        /\ outcome[c].error.code = "use-before-activation"

\* C9: when the exchange succeeds getToken returns the exchanged token and
\* leaves the throttle record as it was, and the throttle record goes from
\* set to clear only in a getToken entry made after allowRequestsAfter.
C9_SuccessLeavesThrottle ==
    /\ [][\A c \in Calls :
            (ExchangeSettles(c) /\ Settled.kind = "return")
            => /\ outcome'[c] = [kind |-> "return", token |-> Settled.token]
               /\ throttleData' = throttleData]_vars
    /\ [][(throttleData # Null /\ throttleData' = Null)
            => \E c \in Calls :
                  /\ Enters(c)
                  /\ now > throttleData.allowRequestsAfter]_vars

\* an exchange succeeded while a throttle record set by an overlapping call
\* stood, and the record is still there
C9_Witness ==
    /\ throttleData # Null
    /\ Len(exchangeLog) > 0
    /\ exchangeLog[Len(exchangeLog)].result.kind = "return"
    /\ exchangeLog[Len(exchangeLog)].after = throttleData
    /\ now < throttleData.allowRequestsAfter

\* C10: when the exchange fails with an error other than FETCH_STATUS_ERROR
\* getToken rejects with that error and leaves the throttle record as it was;
\* when it fails with FETCH_STATUS_ERROR getToken rejects with THROTTLED
\* whose time and httpStatus are those of the record this call has written.
C10_ExchangeFailureClassified ==
    [][\A c \in Calls :
          (ExchangeSettles(c) /\ Settled.kind = "throw")
          => IF Settled.error.code # "fetch-status-error"
             THEN /\ outcome'[c] = [kind |-> "throw", error |-> Settled.error]
                  /\ throttleData' = throttleData
             ELSE /\ throttleData' # Null
                  /\ throttleData'.httpStatus = Settled.error.httpStatus
                  /\ outcome'[c] =
                        [kind |-> "throw",
                         error |-> [code |-> "throttled",
                                    time |-> throttleData'.allowRequestsAfter \div 1000,
                                    httpStatus |-> throttleData'.httpStatus]]]_vars

\* an exchange failed with a network error while a throttle record stood,
\* and another failed with a status and was rejected as THROTTLED
C10_Witness ==
    /\ Len(exchangeLog) = 2
    /\ IsStatusFailure(exchangeLog[1].result)
    /\ exchangeLog[2].result.kind = "throw"
    /\ exchangeLog[2].result.error.code = "fetch-network-error"
    /\ exchangeLog[2].after = exchangeLog[1].after
    /\ outcome[exchangeLog[1].call].error.code = "throttled"
    /\ outcome[exchangeLog[2].call].error.code = "fetch-network-error"

\* the step in which the attestation of call c fails
AttestationFails(c) == pc[c] = "attest" /\ pc'[c] = "done"

\* C11: when the attestation of a ReCaptchaV3Provider.getToken call fails,
\* the call is rejected with the one RECAPTCHA_ERROR, has not invoked and
\* does not invoke the exchange, and leaves the throttle record as it was.
C11_AttestationFailureIsGeneric ==
    /\ [][\A c \in Calls :
            (pc[c] = "attest" /\ pc'[c] # "attest")
            => \/ pc'[c] = "exchange"
               \/ /\ AttestationFails(c)
                  /\ outcome'[c] = [kind |-> "throw",
                                    error |-> [code |-> "recaptcha-error"]]
                  /\ exchangeCalls'[c] = 0
                  /\ throttleData' = throttleData
                  /\ exchangeLog' = exchangeLog]_vars
    /\ [](\A c \in Calls :
            (/\ pc[c] = "done"
             /\ outcome[c].kind = "throw"
             /\ outcome[c].error.code = "recaptcha-error")
            => exchangeCalls[c] = 0 /\ attestCalls[c] = 1)

\* an attestation failed while a throttle record set by an overlapping call
\* stood, and the record is still the one that call wrote
C11_Witness ==
    \E c \in Calls :
        /\ pc[c] = "done"
        /\ outcome[c].kind = "throw"
        /\ outcome[c].error.code = "recaptcha-error"
        /\ exchangeCalls[c] = 0
        /\ throttleData # Null
        /\ Len(exchangeLog) = 1
        /\ exchangeLog[1].after = throttleData
        /\ c > exchangeLog[1].call

\* the step in which the user callback of call c settles
CallbackSettles(c) ==
    /\ pc[c] = "callback"
    /\ pc'[c] = "done"
    /\ Len(exchangeLog') = Len(exchangeLog) + 1

\* C12: when the user callback resolves with a token whose iat claim is t,
\* CustomProvider.getToken returns issuedAtTimeMillis = t * 1000 if
\* 0 < t < Date.now(), and Date.now() if t is 0, negative, not below
\* Date.now() or absent; the token and expireTimeMillis are as the callback
\* gave them and nothing else is added.
C12_TokenNormalizer ==
    [][\A c \in Calls :
          (CallbackSettles(c) /\ Settled.kind = "return")
          => LET customToken == Settled.token
                 jwt == customToken.token
                 trusted == IF "iat" \in DOMAIN jwt
                            THEN 0 < jwt.iat /\ jwt.iat < now
                            ELSE FALSE
             IN  /\ outcome'[c].kind = "return"
                 /\ DOMAIN outcome'[c].token
                       = {"token", "expireTimeMillis", "issuedAtTimeMillis"}
                 /\ outcome'[c].token.token = jwt
                 /\ outcome'[c].token.expireTimeMillis = customToken.expireTimeMillis
                 /\ outcome'[c].token.issuedAtTimeMillis
                       = IF trusted THEN jwt.iat * 1000 ELSE now]_vars

\* one call returned a token with its own iat, 5 s, and another fell back
\* to the current time for an iat of 0
C12_Witness ==
    /\ provider = "CustomProvider"
    /\ \E c \in Calls :
          /\ pc[c] = "done"
          /\ outcome[c].kind = "return"
          /\ outcome[c].token.token = [iat |-> 5]
          /\ outcome[c].token.issuedAtTimeMillis = 5000
    /\ \E c \in Calls :
          /\ pc[c] = "done"
          /\ outcome[c].kind = "return"
          /\ outcome[c].token.token = [iat |-> 0]
          /\ outcome[c].token.issuedAtTimeMillis = now

\* C13 as stated: the issuedAtTimeMillis of a token CustomProvider.getToken
\* returned is never later than the current time: an iat claim whose
\* millisecond equivalent lies in the future is replaced by the current time.
C13_IssuedAtNotInFuture ==
    \A c \in Calls :
        (provider = "CustomProvider" /\ pc[c] = "done" /\ outcome[c].kind = "return")
        => outcome[c].token.issuedAtTimeMillis <= now

\* what a getToken call can settle with: a token, or one of the failures
\* USE_BEFORE_ACTIVATION, RECAPTCHA_ERROR, THROTTLED, or the failure the
\* exchange or the user callback raised
ClassifiedOutcome(o) ==
    \/ o.kind = "return"
    \/ /\ o.kind = "throw"
       /\ o.error.code \in {"use-before-activation", "recaptcha-error", "throttled",
                            "fetch-network-error", "fetch-parse-error",
                            "custom-callback-error"}

\* C14: given that the collaborators respond, every getToken call that was
\* made is eventually over, a call is over with exactly one outcome, a token
\* or a classified failure, and a call that is not over has no outcome.
C14_EveryCallCompletes ==
    /\ \A c \in Calls : (pc[c] # "idle") ~> (pc[c] = "done")
    /\ [](\A c \in Calls :
            IF pc[c] = "done"
            THEN outcome[c] # Null /\ ClassifiedOutcome(outcome[c])
            ELSE outcome[c] = Null)
    /\ [][\A c \in Calls :
            pc[c] = "done" => pc'[c] = "done" /\ outcome'[c] = outcome[c]]_vars

\* both calls on an initialized ReCaptchaV3Provider are over, one with a
\* token and one with a failure of the exchange
C14_Witness ==
    /\ IsRecaptcha
    /\ app # Undefined
    /\ \A c \in Calls : pc[c] = "done" /\ exchangeCalls[c] = 1
    /\ \E c \in Calls : outcome[c].kind = "return"
    /\ \E c \in Calls : outcome[c].kind = "throw"

\* the results the exchange or the callback has settled with for call c
SettledFor(c) == {i \in 1..Len(exchangeLog) : exchangeLog[i].call = c}

\* C15: one getToken call invokes the attestation collaborator (or the user
\* callback) at most once and the exchange collaborator at most once,
\* whatever they answer: a failure is never followed by another attempt.
C15_NoRetryInside ==
    \A c \in Calls :
        /\ attestCalls[c] <= 1
        /\ exchangeCalls[c] <= 1
        /\ Cardinality(SettledFor(c)) <= 1
        /\ provider = "CustomProvider" => exchangeCalls[c] = 0
        /\ (\E i \in SettledFor(c) : exchangeLog[i].result.kind = "throw")
              => pc[c] = "done" /\ outcome[c].kind = "throw"

\* every call on a ReCaptchaV3Provider failed in its exchange, having
\* invoked each collaborator once
C15_Witness ==
    /\ IsRecaptcha
    /\ \A c \in Calls :
          /\ pc[c] = "done"
          /\ attestCalls[c] = 1
          /\ exchangeCalls[c] = 1
          /\ \E i \in SettledFor(c) : exchangeLog[i].result.kind = "throw"
    /\ \E c \in Calls : outcome[c].error.code = "fetch-network-error"

IsProvider(x) == x.class \in {"ReCaptchaV3Provider", "CustomProvider"}

\* C16 as stated: isEqual is reflexive and symmetric, true for two
\* ReCaptchaV3Providers iff their site keys are equal, true for two
\* CustomProviders iff their callbacks are the same function, and false
\* across variants and for an argument that is no provider.
C16_IsEqualByIdentity ==
    isEqualCall # Null
    => LET this == isEqualCall.this
           other == isEqualCall.other
       IN  /\ this = other => isEqualCall.result
           /\ IsProvider(other) => isEqualCall.result = IsEqual(other, this)
           /\ isEqualCall.result
                 = IF this.class # other.class THEN FALSE
                   ELSE IF this.class = "ReCaptchaV3Provider"
                        THEN this.siteKey = other.siteKey
                        ELSE this.getToken.id = other.getToken.id

\* C16 amended: as stated, except that two CustomProviders are equal iff
\* the source texts of their callbacks (getToken.toString()) are equal,
\* whether or not they are the same function; the result depends on no
\* throttle record and no app context.
C16_IsEqualBySourceText ==
    isEqualCall # Null
    => LET this == isEqualCall.this
           other == isEqualCall.other
       IN  /\ this = other => isEqualCall.result
           /\ IsProvider(other) => isEqualCall.result = IsEqual(other, this)
           /\ isEqualCall.result
                 = IF this.class # other.class THEN FALSE
                   ELSE IF this.class = "ReCaptchaV3Provider"
                        THEN this.siteKey = other.siteKey
                        ELSE this.getToken.text = other.getToken.text

\* two ReCaptchaV3Providers with the same site key, one throttled and
\* initialized and the other neither, were found equal
C16_Witness ==
    /\ isEqualCall # Null
    /\ isEqualCall.this.class = "ReCaptchaV3Provider"
    /\ isEqualCall.other.class = "ReCaptchaV3Provider"
    /\ isEqualCall.this.siteKey = isEqualCall.other.siteKey
    /\ isEqualCall.this.throttleData # isEqualCall.other.throttleData
    /\ isEqualCall.this.app # isEqualCall.other.app
    /\ isEqualCall.result

\* the hard blocks settled so far whose day has not yet passed
StandingHardBlocks ==
    {i \in 1..Len(exchangeLog) :
        /\ IsHardBlock(exchangeLog[i].result)
        /\ now < exchangeLog[i].after.allowRequestsAfter}

\* C17 as stated: after an exchange failed with status 403 or 404 at t0, and
\* until t0 + ONE_DAY, the stored allowRequestsAfter is never below
\* t0 + ONE_DAY, and a getToken call made after t0 and before t0 + ONE_DAY is
\* turned away on entry, so that it invokes no exchange; this in every
\* interleaving, calls in flight at t0 that fail later included.
C17_HardBlockStandsForADay ==
    /\ [](\A i \in StandingHardBlocks :
            /\ throttleData # Null
            /\ throttleData.allowRequestsAfter
                  >= exchangeLog[i].after.allowRequestsAfter)
    /\ [][\A c \in Calls :
            (/\ Enters(c)
             /\ \E i \in StandingHardBlocks :
                   now > exchangeLog[i].after.allowRequestsAfter - ONE_DAY)
            => /\ pc'[c] = "done"
               /\ exchangeCalls'[c] = 0]_vars

\* C18: when the getToken calls on a ReCaptchaV3Provider do not overlap,
\* the throttle state is clear whenever an exchange is invoked and while it
\* is pending, every transient failure draws its delay for attempt count 0,
\* and backoffCount is 1 in every throttle record that is stored; so a
\* backoffCount above 1 takes overlapping calls.
C18_SequentialBackoffCountIsOne ==
    /\ [](IsRecaptcha =>
            /\ \A c \in Calls : pc[c] = "exchange" => throttleData = Null
            /\ throttleData # Null => throttleData.backoffCount = 1
            /\ \A i \in 1..Len(exchangeLog) :
                  IsStatusFailure(exchangeLog[i].result)
                  => exchangeLog[i].after.backoffCount = 1)
    /\ [][\A c \in Calls :
            (ExchangeSettles(c) /\ IsTransient(Settled))
            => (throttleData'.allowRequestsAfter - now)
                  \in CalculateBackoffMillis(0, 1000, 2)]_vars

\* two calls, one after the other, each failed with a transient status, the
\* second after the window of the first had passed, and backoffCount is
\* still 1
C18_Witness ==
    /\ IsRecaptcha
    /\ Len(exchangeLog) = 2
    /\ IsTransient(exchangeLog[1].result)
    /\ IsTransient(exchangeLog[2].result)
    /\ entryThrottle[exchangeLog[2].call] = exchangeLog[1].after
    /\ throttleData # Null
    /\ throttleData.backoffCount = 1

====
